---- MODULE Spec2Model ----
(***************************************************************************)
(* Model of the polling / call-log / panel-state logic of the StatsTab     *)
(* component (src/src/components/StatsTab.tsx).                            *)
(*                                                                         *)
(* All handlers run on one event loop.  The only suspension point of       *)
(* fetchSystemStats is `await adminService.getSystemStatus()`, so one      *)
(* poll cycle is two atomic steps: the start (everything up to the await)  *)
(* and the completion (everything after it, finally block included).       *)
(***************************************************************************)
EXTENDS Integers, Sequences, FiniteSets, TLC

\* ---------------------------------------------------------------- bounds
MaxTicks == 2       \* interval periods that elapse in a run
MaxManual == 1      \* clicks on the refresh button in a run
MaxSeconds == 7325  \* largest uptime (seconds) a snapshot reports

\* ------------------------------------------------------------- constants
PollIntervalMs == 30000

StatusEndpoint == "/api/admin/status"

UnknownErrorMessage == "unknown-error"

NULL == "NULL"

NoTimer == 0

\* Payloads adminService.getSystemStatus() can resolve with.
Payloads == {"A", "B"}

\* Values adminService.getSystemStatus() can reject with.  isError tells
\* whether the value is an instance of Error; text is its .message for an
\* Error and String(value) for anything else.
Thrown ==
    { [isError |-> TRUE,  text |-> "timeout"],
      [isError |-> TRUE,  text |-> ""],
      [isError |-> FALSE, text |-> "boom"],
      [isError |-> FALSE, text |-> "undefined"] }

Origins == {"mount", "tick", "manual"}

VARIABLES
    systemStatus,   \* useState<SystemStatus | null>
    loading,        \* useState(false)
    debugMode,      \* useState(false)
    apiCalls,       \* useState<Record<string, ApiCallLog>>: entries in key insertion order
    error,          \* useState<string | null>
    phase,          \* "idle" (constructed), "active" (effect ran), "stopped" (cleanup ran)
    interval,       \* period of the armed setInterval timer, NoTimer when none
    inflight,       \* pending getSystemStatus() promises, in issue order
    started,        \* history: fetchSystemStats invocations per origin
    requests,       \* history: adminService.getSystemStatus() calls
    periods,        \* history: interval periods elapsed with the timer armed
    rejections,     \* history: fetchSystemStats promises that rejected
    overlapped,     \* history: some cycle started while another was in flight
    outcomes,       \* history: TRUE/FALSE per completed fetch, in completion order
    lastGood,       \* history: payload of the latest successful completion
    last,           \* history: the latest completion
    lastEvent,      \* history: the handler that ran last
    seconds,        \* systemStatus.uptime of the snapshot being rendered
    uptimeText,     \* what formatUptime returned for it, << >> before the render
    slot,           \* which status of the snapshot is rendered: overall or a module's
    status,         \* the status label in that slot, as a sequence of characters
    chip            \* the Chip color getStatusColor returned, "none" before the render

vars == << systemStatus, loading, debugMode, apiCalls, error, phase, interval,
           inflight, started, requests, periods, rejections, overlapped,
           outcomes, lastGood, last, lastEvent,
           seconds, uptimeText, slot, status, chip >>

\* What the presenter functions read and produce.
presented == << seconds, uptimeText, slot, status, chip >>

panel == << systemStatus, error, loading, apiCalls >>

history == << started, requests, periods, rejections, overlapped,
              outcomes, lastGood, last >>

\* ------------------------------------------------------------ logApiCall
\* `error?.message || null`: an absent error and an empty message both give null.
MessageOrNull(err) ==
    IF err = {} THEN NULL
    ELSE LET e == CHOOSE x \in err : TRUE
         IN  IF e.text = "" THEN NULL ELSE e.text

\* The logEntry object literal; err is {} when the third argument is omitted.
LogEntry(ts, endpoint, data, err) ==
    [ timestamp |-> ts,
      endpoint  |-> endpoint,
      data      |-> IF err # {} THEN NULL ELSE data,
      error     |-> MessageOrNull(err),
      status    |-> IF err # {} THEN "error" ELSE "success" ]

\* Mutation: the log keeps a history instead of the latest outcome.
SetApiCallsAppend(prev, endpoint, logEntry) ==
    Append(prev, logEntry)

\* setApiCalls(prev => ({...prev, [endpoint]: logEntry})): an existing key
\* keeps its place and gets the new value, a new key goes last.
SetApiCalls(prev, endpoint, logEntry) ==
    IF \E i \in 1..Len(prev) : prev[i].endpoint = endpoint
    THEN [ i \in 1..Len(prev) |->
             IF prev[i].endpoint = endpoint THEN logEntry ELSE prev[i] ]
    ELSE Append(prev, logEntry)

logApiCall(prev, ts, endpoint, data, err) ==
    SetApiCalls(prev, endpoint, LogEntry(ts, endpoint, data, err))

\* ------------------------------------------------- catch-block helpers
\* err instanceof Error ? err.message : '<fixed message>'
ErrorMessage(err) ==
    IF err.isError THEN err.text ELSE UnknownErrorMessage

\* err instanceof Error ? err : new Error(String(err))
AsError(err) ==
    IF err.isError THEN err ELSE [isError |-> TRUE, text |-> err.text]

RemoveAt(s, k) ==
    [ i \in 1..(Len(s) - 1) |-> IF i < k THEN s[i] ELSE s[i + 1] ]

\* Marks the fetches issued before position k: a later-issued fetch has
\* delivered its payload before them.
Overtake(s, k) ==
    [ i \in 1..Len(s) |-> IF i < k THEN [s[i] EXCEPT !.overtaken = TRUE] ELSE s[i] ]

\* ---------------------------------------------------------------- Init
Init ==
    /\ systemStatus = NULL
    /\ loading = FALSE
    /\ debugMode = FALSE
    /\ apiCalls = << >>
    /\ error = NULL
    /\ phase = "idle"
    /\ interval = NoTimer
    /\ inflight = << >>
    /\ started = [o \in Origins |-> 0]
    /\ requests = 0
    /\ periods = 0
    /\ rejections = 0
    /\ overlapped = FALSE
    /\ outcomes = << >>
    /\ lastGood = NULL
    /\ last = [ ok |-> FALSE, data |-> NULL, thrown |-> {}, ts |-> 0,
                overtaken |-> FALSE, before |-> NULL, phase |-> "idle" ]
    /\ lastEvent = "none"
    /\ seconds = 0
    /\ uptimeText = << >>
    /\ slot = "overall"
    /\ status = << >>
    /\ chip = "none"

\* ------------------------------------------- fetchSystemStats, first half
\* Mutation: the cycle starts without clearing the previous error.
BeginFetchKeepsError(origin) ==
    /\ loading' = TRUE
    /\ error' = error
    /\ inflight' = Append(inflight, [origin |-> origin, overtaken |-> FALSE])
    /\ requests' = requests + 1
    /\ started' = [started EXCEPT ![origin] = @ + 1]
    /\ overlapped' = (overlapped \/ inflight # << >>)

\* setLoading(true); setError(null); adminService.getSystemStatus() is called
\* once and the function suspends on its promise.
BeginFetch(origin) ==
    /\ loading' = TRUE
    /\ error' = NULL
    /\ inflight' = Append(inflight, [origin |-> origin, overtaken |-> FALSE])
    /\ requests' = requests + 1
    /\ started' = [started EXCEPT ![origin] = @ + 1]
    /\ overlapped' = (overlapped \/ inflight # << >>)

\* -------------------------------------------------------------- useEffect
\* The effect body: fetchSystemStats(); setInterval(fetchSystemStats, 30000).
\* Its dependency fetchSystemStats is stable, so it runs once.
Mount ==
    /\ phase = "idle"
    /\ phase' = "active"
    /\ BeginFetch("mount")
    /\ interval' = PollIntervalMs
    /\ lastEvent' = "mount"
    /\ UNCHANGED presented
    /\ UNCHANGED << systemStatus, debugMode, apiCalls, periods, rejections,
                    outcomes, lastGood, last >>

\* Mutation: the timer skips a period while an earlier fetch is pending.
TickSerialized ==
    /\ interval # NoTimer
    /\ periods < MaxTicks
    /\ inflight = << >>
    /\ periods' = periods + 1
    /\ BeginFetch("tick")
    /\ lastEvent' = "tick"
    /\ UNCHANGED presented
    /\ UNCHANGED << systemStatus, debugMode, apiCalls, phase, interval,
                    rejections, outcomes, lastGood, last >>

\* One interval period elapses and the timer calls fetchSystemStats.
Tick ==
    /\ interval # NoTimer
    /\ periods < MaxTicks
    /\ periods' = periods + 1
    /\ BeginFetch("tick")
    /\ lastEvent' = "tick"
    /\ UNCHANGED presented
    /\ UNCHANGED << systemStatus, debugMode, apiCalls, phase, interval,
                    rejections, outcomes, lastGood, last >>

\* Mutation: the cleanup leaves the interval running.
UnmountKeepsTimer ==
    /\ phase = "active"
    /\ phase' = "stopped"
    /\ lastEvent' = "unmount"
    /\ UNCHANGED presented
    /\ UNCHANGED << systemStatus, loading, debugMode, apiCalls, error, interval,
                    inflight, started, requests, periods, rejections,
                    overlapped, outcomes, lastGood, last >>

\* The effect cleanup: clearInterval(interval).
Unmount ==
    /\ phase = "active"
    /\ phase' = "stopped"
    /\ interval' = NoTimer
    /\ lastEvent' = "unmount"
    /\ UNCHANGED presented
    /\ UNCHANGED << systemStatus, loading, debugMode, apiCalls, error,
                    inflight, started, requests, periods, rejections,
                    overlapped, outcomes, lastGood, last >>

\* ------------------------------------------------------------ the header
\* The refresh IconButton: onClick={fetchSystemStats} disabled={loading}.
ManualRefresh ==
    /\ phase = "active"
    /\ ~loading
    /\ started["manual"] < MaxManual
    /\ BeginFetch("manual")
    /\ lastEvent' = "manual"
    /\ UNCHANGED presented
    /\ UNCHANGED << systemStatus, debugMode, apiCalls, phase, interval, periods,
                    rejections, outcomes, lastGood, last >>

\* Mutation: the polling effect depends on debugMode, so a toggle re-runs
\* fetchSystemStats.
ToggleDebugRefetches ==
    /\ phase = "active"
    /\ debugMode' = ~debugMode
    /\ BeginFetch("mount")
    /\ lastEvent' = "toggle"
    /\ UNCHANGED presented
    /\ UNCHANGED << systemStatus, apiCalls, phase, interval, periods,
                    rejections, outcomes, lastGood, last >>

\* The debug Switch: onChange={(e) => setDebugMode(e.target.checked)}.
ToggleDebug ==
    /\ phase = "active"
    /\ debugMode' = ~debugMode
    /\ lastEvent' = "toggle"
    /\ UNCHANGED presented
    /\ UNCHANGED << systemStatus, loading, apiCalls, error, phase, interval,
                    inflight, history >>

\* ------------------------------------------ fetchSystemStats, second half
\* History of a completion: which fetch settled, with what, and what it found.
Settled(k, ok, data, thrown, ts) ==
    /\ outcomes' = Append(outcomes, ok)
    /\ lastGood' = IF ok THEN data ELSE lastGood
    /\ last' = [ ok |-> ok, data |-> data, thrown |-> thrown, ts |-> ts,
                 overtaken |-> inflight[k].overtaken, before |-> systemStatus,
                 phase |-> phase ]
    /\ lastEvent' = IF ok THEN "success" ELSE "failure"
    /\ UNCHANGED presented

\* Mutation: a response is dropped when a later-issued fetch has already
\* delivered (a sequence-number guard).
ResolveNewestOnly(k, data, ts) ==
    /\ k \in 1..Len(inflight)
    /\ apiCalls' = logApiCall(apiCalls, ts, StatusEndpoint, data, {})
    /\ systemStatus' = IF inflight[k].overtaken THEN systemStatus ELSE data
    /\ loading' = FALSE
    /\ inflight' = RemoveAt(Overtake(inflight, k), k)
    /\ Settled(k, TRUE, data, {}, ts)
    /\ UNCHANGED << debugMode, error, phase, interval, started, requests,
                    periods, rejections, overlapped >>

\* The promise of fetch k resolves with data: the rest of the try block
\* (logApiCall, setSystemStatus) and the finally block (setLoading(false)).
Resolve(k, data, ts) ==
    /\ k \in 1..Len(inflight)
    /\ apiCalls' = logApiCall(apiCalls, ts, StatusEndpoint, data, {})
    /\ systemStatus' = data
    /\ loading' = FALSE
    /\ inflight' = RemoveAt(Overtake(inflight, k), k)
    /\ Settled(k, TRUE, data, {}, ts)
    /\ UNCHANGED << debugMode, error, phase, interval, started, requests,
                    periods, rejections, overlapped >>

\* Mutation: the catch block clears the displayed snapshot.
RejectClearsSnapshot(k, err, ts) ==
    /\ k \in 1..Len(inflight)
    /\ apiCalls' = logApiCall(apiCalls, ts, StatusEndpoint, NULL, {AsError(err)})
    /\ error' = ErrorMessage(err)
    /\ systemStatus' = NULL
    /\ loading' = FALSE
    /\ inflight' = RemoveAt(inflight, k)
    /\ Settled(k, FALSE, NULL, {err}, ts)
    /\ UNCHANGED << debugMode, phase, interval, started, requests, periods,
                    rejections, overlapped >>

\* Mutation: setLoading(false) sits at the end of the try block, not in finally.
RejectLeavesLoading(k, err, ts) ==
    /\ k \in 1..Len(inflight)
    /\ apiCalls' = logApiCall(apiCalls, ts, StatusEndpoint, NULL, {AsError(err)})
    /\ error' = ErrorMessage(err)
    /\ inflight' = RemoveAt(inflight, k)
    /\ Settled(k, FALSE, NULL, {err}, ts)
    /\ UNCHANGED << systemStatus, loading, debugMode, phase, interval, started,
                    requests, periods, rejections, overlapped >>

\* Mutation: a failure pauses polling (the catch block clears the interval).
RejectStopsPolling(k, err, ts) ==
    /\ k \in 1..Len(inflight)
    /\ apiCalls' = logApiCall(apiCalls, ts, StatusEndpoint, NULL, {AsError(err)})
    /\ error' = ErrorMessage(err)
    /\ loading' = FALSE
    /\ interval' = NoTimer
    /\ inflight' = RemoveAt(inflight, k)
    /\ Settled(k, FALSE, NULL, {err}, ts)
    /\ UNCHANGED << systemStatus, debugMode, phase, started, requests, periods,
                    rejections, overlapped >>

\* Mutation: a failure issues an immediate second request.
RejectRetries(k, err, ts) ==
    /\ k \in 1..Len(inflight)
    /\ apiCalls' = logApiCall(apiCalls, ts, StatusEndpoint, NULL, {AsError(err)})
    /\ error' = ErrorMessage(err)
    /\ loading' = FALSE
    /\ requests' = requests + 1
    /\ inflight' = RemoveAt(inflight, k)
    /\ Settled(k, FALSE, NULL, {err}, ts)
    /\ UNCHANGED << systemStatus, debugMode, phase, interval, started, periods,
                    rejections, overlapped >>

\* The promise of fetch k rejects with err: the catch block (logApiCall with
\* the value wrapped as an Error, setError) and the finally block.  The catch
\* block handles every err, so the promise of fetchSystemStats itself fulfils.
Reject(k, err, ts) ==
    /\ k \in 1..Len(inflight)
    /\ apiCalls' = logApiCall(apiCalls, ts, StatusEndpoint, NULL, {AsError(err)})
    /\ error' = ErrorMessage(err)
    /\ loading' = FALSE
    /\ inflight' = RemoveAt(inflight, k)
    /\ Settled(k, FALSE, NULL, {err}, ts)
    /\ UNCHANGED << systemStatus, debugMode, phase, interval, started, requests,
                    periods, rejections, overlapped >>

\* new Date(): the clock read at a completion, counted in poll-cycle events
\* (starts and completions) so far; it advances with every one of them.
Now == requests + Len(outcomes)

FetchResolves ==
    \E k \in 1..Len(inflight), data \in Payloads :
        Resolve(k, data, Now)

FetchRejects ==
    \E k \in 1..Len(inflight), err \in Thrown :
        Reject(k, err, Now)

\* ------------------------------------------------------- specifications
Next ==
    \/ Mount
    \/ Tick
    \/ ManualRefresh
    \/ ToggleDebug
    \/ FetchResolves
    \/ FetchRejects
    \/ Unmount

Spec == Init /\ [][Next]_vars

\* The browser fires an armed interval timer after every period.
LiveSpec == Init /\ [][Next]_vars /\ WF_vars(Tick)

TypeOK ==
    /\ systemStatus \in Payloads \cup {NULL}
    /\ loading \in BOOLEAN
    /\ debugMode \in BOOLEAN
    /\ error \in {NULL, UnknownErrorMessage} \cup {t.text : t \in Thrown}
    /\ phase \in {"idle", "active", "stopped"}
    /\ interval \in {NoTimer, PollIntervalMs}
    /\ Len(inflight) <= 1 + MaxTicks + MaxManual
    /\ \A i \in 1..Len(inflight) : inflight[i].origin \in Origins
    /\ \A i \in 1..Len(apiCalls) : apiCalls[i].status \in {"success", "error"}
    /\ Len(outcomes) + Len(inflight) = requests

\* ------------------------------------------------------- the presenter
\* Mutation: the minutes are taken from the whole uptime, not from the
\* remainder of the hour.
formatUptimeTotalMinutes(s) ==
    [ hours |-> s \div 3600, minutes |-> s \div 60 ]

\* formatUptime: the two numbers interpolated into the returned text.
\* Math.floor of a quotient of non-negative integers is integer division.
formatUptime(s) ==
    [ hours |-> s \div 3600, minutes |-> (s % 3600) \div 60 ]

UpperLetters ==
    << "A", "B", "C", "D", "E", "F", "G", "H", "I", "J", "K", "L", "M",
       "N", "O", "P", "Q", "R", "S", "T", "U", "V", "W", "X", "Y", "Z" >>

LowerLetters ==
    << "a", "b", "c", "d", "e", "f", "g", "h", "i", "j", "k", "l", "m",
       "n", "o", "p", "q", "r", "s", "t", "u", "v", "w", "x", "y", "z" >>

\* String.prototype.toLowerCase on the characters the labels are made of:
\* an upper-case letter becomes its lower-case letter, anything else stays.
toLowerCase(str) ==
    [ i \in 1..Len(str) |->
        IF \E j \in 1..26 : UpperLetters[j] = str[i]
        THEN LowerLetters[CHOOSE j \in 1..26 : UpperLetters[j] = str[i]]
        ELSE str[i] ]

healthy == << "h", "e", "a", "l", "t", "h", "y" >>
active  == << "a", "c", "t", "i", "v", "e" >>
running == << "r", "u", "n", "n", "i", "n", "g" >>
warning == << "w", "a", "r", "n", "i", "n", "g" >>
errorLabel == << "e", "r", "r", "o", "r" >>
failed  == << "f", "a", "i", "l", "e", "d" >>

\* Mutation: the label is compared as it is, without lower-casing.
getStatusColorCaseSensitive(str) ==
    CASE str \in {healthy, active, running} -> "success"
      [] str = warning                      -> "warning"
      [] str \in {errorLabel, failed}       -> "error"
      [] OTHER                              -> "default"

\* getStatusColor: the switch on status.toLowerCase().
getStatusColor(str) ==
    LET s == toLowerCase(str)
    IN  CASE s \in {healthy, active, running} -> "success"
          [] s = warning                      -> "warning"
          [] s \in {errorLabel, failed}       -> "error"
          [] OTHER                            -> "default"

\* The module names of SystemStatus.modules.
Modules == {"session", "document_processor", "retrieval", "generation"}

\* Every letter-casing of a lower-case word.
RECURSIVE Casings(_)
Casings(w) ==
    IF w = << >> THEN { << >> }
    ELSE LET j == CHOOSE i \in 1..26 : LowerLetters[i] = Head(w)
         IN  { << c >> \o rest : c \in {Head(w), UpperLetters[j]},
                                 rest \in Casings(Tail(w)) }

\* Labels a snapshot can carry: every casing of the six labels the switch
\* names and of "unknown", and labels that only resemble them.
Labels ==
    UNION { Casings(w) : w \in { healthy, active, running, warning,
                                 errorLabel, failed,
                                 << "u", "n", "k", "n", "o", "w", "n" >> } }
    \cup { << >>,
           << "o", "k" >>,
           << "f", "a", "i", "l" >>,
           << "e", "r", "r", "o", "r", "s" >>,
           << "E", "R", "R", "O", "R", " " >>,
           << " ", "a", "c", "t", "i", "v", "e" >>,
           << "h", "e", "a", "l", "t", "h", "y", "!" >>,
           << "W", "A", "R", "N" >> }

\* The panel with one snapshot stored: the state after the mount fetch has
\* resolved with payload "A" (the presenter functions run only in the
\* `systemStatus && (...)` part of the render).
PanelShowsSnapshot ==
    /\ systemStatus = "A"
    /\ loading = FALSE
    /\ debugMode = FALSE
    /\ apiCalls = << LogEntry(1, StatusEndpoint, "A", {}) >>
    /\ error = NULL
    /\ phase = "active"
    /\ interval = PollIntervalMs
    /\ inflight = << >>
    /\ started = [o \in Origins |-> IF o = "mount" THEN 1 ELSE 0]
    /\ requests = 1
    /\ periods = 0
    /\ rejections = 0
    /\ overlapped = FALSE
    /\ outcomes = << TRUE >>
    /\ lastGood = "A"
    /\ last = [ ok |-> TRUE, data |-> "A", thrown |-> {}, ts |-> 1,
                overtaken |-> FALSE, before |-> NULL, phase |-> "active" ]
    /\ lastEvent = "success"

UptimeInit ==
    /\ PanelShowsSnapshot
    /\ seconds \in 0..MaxSeconds
    /\ uptimeText = << >>
    /\ slot = "overall"
    /\ status = << >>
    /\ chip = "none"

\* The render of {formatUptime(systemStatus.uptime)}.
RenderUptime ==
    /\ systemStatus # NULL
    /\ uptimeText = << >>
    /\ uptimeText' = << formatUptime(seconds) >>
    /\ UNCHANGED << systemStatus, loading, debugMode, apiCalls, error, phase,
                    interval, inflight, history, lastEvent,
                    seconds, slot, status, chip >>

UptimeNext == RenderUptime

UptimeSpec == UptimeInit /\ [][UptimeNext]_vars

StatusInit ==
    /\ PanelShowsSnapshot
    /\ seconds = 0
    /\ uptimeText = << >>
    /\ slot \in {"overall"} \cup Modules
    /\ status \in Labels
    /\ chip = "none"

\* The render of the overall Chip: color={getStatusColor(systemStatus.status)}.
RenderStatusChip ==
    /\ systemStatus # NULL
    /\ slot = "overall"
    /\ chip = "none"
    /\ chip' = getStatusColor(status)
    /\ UNCHANGED << systemStatus, loading, debugMode, apiCalls, error, phase,
                    interval, inflight, history, lastEvent,
                    seconds, uptimeText, slot, status >>

\* The render of a module's Chip: color={getStatusColor(info.status)}.
RenderModuleChip ==
    /\ systemStatus # NULL
    /\ slot \in Modules
    /\ chip = "none"
    /\ chip' = getStatusColor(status)
    /\ UNCHANGED << systemStatus, loading, debugMode, apiCalls, error, phase,
                    interval, inflight, history, lastEvent,
                    seconds, uptimeText, slot, status >>

StatusNext ==
    \/ RenderStatusChip
    \/ RenderModuleChip

StatusSpec == StatusInit /\ [][StatusNext]_vars

\* ------------------------------------------------------------- claims
\* C1: once the panel is unmounted, a fetch that resolves or rejects leaves
\* the panel state (snapshot, error, loading, call log) as it was.
C1_NoUpdateAfterTeardown ==
    [][phase = "stopped" => panel' = panel]_vars

C3_SuccessClearsError ==
    lastEvent = "success" => error = NULL

\* C4: after poll cycles that ran one after another without overlap, the
\* snapshot is the payload of the latest success (null if none), the error
\* field is null exactly when the last cycle succeeded, and the call log is
\* one entry for the status endpoint with the last cycle's outcome and data.
C4_SequentialCycles ==
    (~overlapped /\ inflight = << >> /\ outcomes # << >>) =>
        /\ systemStatus = lastGood
        /\ (error = NULL) <=> last.ok
        /\ Len(apiCalls) = 1
        /\ apiCalls[1].endpoint = StatusEndpoint
        /\ apiCalls[1].status = (IF last.ok THEN "success" ELSE "error")
        /\ apiCalls[1].data = (IF last.ok THEN last.data ELSE NULL)
        /\ apiCalls[1].timestamp = last.ts

C4_Witness ==
    /\ ~overlapped
    /\ inflight = << >>
    /\ outcomes = << TRUE, FALSE, TRUE >>
    /\ last.before = "A"
    /\ systemStatus = "B"
    /\ error = NULL
    /\ apiCalls[1].data = "B"

\* C5: before teardown the snapshot is the payload of the successful fetch
\* that completed most recently, whatever the order of issue.
C5_LastCompletionWins ==
    phase # "stopped" => systemStatus = lastGood

C5_Witness ==
    /\ phase = "active"
    /\ lastEvent = "success"
    /\ last.overtaken
    /\ last.before \in Payloads
    /\ last.before # systemStatus

\* C6: once the scheduler is deactivated no step is a timer-initiated
\* invocation: the count of them, and of elapsed timer periods, is frozen.
C6_NoTickAfterStop ==
    [][phase = "stopped" =>
          /\ started'["tick"] = started["tick"]
          /\ periods' = periods
          /\ interval' = NoTimer]_vars

C6_Witness ==
    /\ phase = "stopped"
    /\ started["tick"] >= 1
    /\ periods < MaxTicks
    /\ lastEvent \in {"success", "failure"}

\* C7: with no manual refresh, nothing is invoked before activation, one
\* invocation at activation, N + 1 after N periods; every invocation is one
\* external request, failed ones included.
C7_InvocationCount ==
    /\ phase = "idle" => requests = 0
    /\ (phase # "idle" /\ started["manual"] = 0) =>
          /\ started["mount"] = 1
          /\ started["mount"] + started["tick"] = periods + 1
          /\ requests = periods + 1

C7_Witness ==
    /\ phase = "active"
    /\ started["manual"] = 0
    /\ periods = 2
    /\ outcomes = << FALSE, FALSE >>
    /\ requests = 3

\* C8: while active the timer stays armed with its interval and every period
\* starts a fetch, whatever the outcomes of earlier fetches; with the timer
\* firing fairly, each period is followed by another started fetch (up to the
\* bound on periods) unless the panel is unmounted.
C8_FailuresNeverStopPolling ==
    /\ [](phase = "active" => interval = PollIntervalMs)
    /\ [](started["tick"] = periods)
    /\ \A n \in 0..(MaxTicks - 1) :
          (phase = "active" /\ periods = n)
              ~> (phase = "stopped" \/ started["tick"] > n)

C8_Witness ==
    /\ phase = "active"
    /\ lastEvent = "tick"
    /\ outcomes # << >>
    /\ \A i \in 1..Len(outcomes) : ~outcomes[i]
    /\ started["tick"] = Len(outcomes) + 1

\* C9: the call log never holds two entries with the same endpoint key, and
\* after a completion its entry for the key is the new outcome's timestamp,
\* data, error and status.
C9_OneEntryPerKey ==
    /\ \A i, j \in 1..Len(apiCalls) :
          apiCalls[i].endpoint = apiCalls[j].endpoint => i = j
    /\ outcomes # << >> =>
          \E i \in 1..Len(apiCalls) :
              /\ apiCalls[i].endpoint = StatusEndpoint
              /\ apiCalls[i].timestamp = last.ts
              /\ apiCalls[i].data = last.data
              /\ apiCalls[i].status = (IF last.ok THEN "success" ELSE "error")
              /\ last.ok => apiCalls[i].error = NULL
              /\ ~last.ok =>
                    \E t \in last.thrown :
                        \/ apiCalls[i].error = t.text
                        \/ t.text = "" /\ apiCalls[i].error = NULL

C9_Witness ==
    /\ Len(outcomes) >= 2
    /\ outcomes[Len(outcomes) - 1]
    /\ lastEvent = "failure"
    /\ Len(apiCalls) = 1
    /\ apiCalls[1].status = "error"
    /\ apiCalls[1].data = NULL

\* C10: immediately after a fetch completes, successfully or not, the
\* loading flag is false.
C10_LoadingClearedOnCompletion ==
    lastEvent \in {"success", "failure"} => loading = FALSE

C10_Witness ==
    /\ lastEvent = "failure"
    /\ loading = FALSE
    /\ Len(outcomes) = 1

\* C11: the timer does not wait for pending fetches: while the panel is
\* active (and periods remain within the bound) a tick can start a fetch
\* whatever is in flight, and the fetch it starts goes through the same start
\* of a poll cycle (loading set, error cleared, one more request pending).
C11_TicksNotSerialized ==
    /\ (phase = "active" /\ periods < MaxTicks) => ENABLED Tick
    /\ lastEvent = "tick" =>
          /\ inflight # << >>
          /\ inflight[Len(inflight)].origin = "tick"
          /\ loading
          /\ error = NULL
    /\ Len(inflight) = requests - Len(outcomes)

C11_Witness ==
    /\ lastEvent = "tick"
    /\ Len(inflight) >= 3
    /\ \E i \in 1..Len(inflight) : inflight[i].origin = "manual"
    /\ \E i \in 1..Len(inflight) : inflight[i].origin = "mount"

\* C12: every call-log entry is well-formed for its outcome: a failure entry
\* has status 'error', null data and a non-null error message; a success
\* entry has status 'success', the payload as data and a null error.
C12_EntriesWellFormed ==
    \A i \in 1..Len(apiCalls) :
        /\ apiCalls[i].status = "error" =>
              /\ apiCalls[i].data = NULL
              /\ apiCalls[i].error # NULL
        /\ apiCalls[i].status = "success" =>
              /\ apiCalls[i].data \in Payloads
              /\ apiCalls[i].error = NULL
        /\ (outcomes # << >> /\ ~last.ok) => apiCalls[i].status = "error"
        /\ (outcomes # << >> /\ last.ok) =>
              /\ apiCalls[i].status = "success"
              /\ apiCalls[i].data = last.data

\* C13: for every non-negative integer s, formatUptime(s) reports minutes in
\* 0..59 and hours with hours*3600 + minutes*60 <= s < hours*3600 +
\* minutes*60 + 60, that is hours = floor(s/3600), minutes = floor((s mod 3600)/60).
C13_UptimeHoursMinutes ==
    uptimeText # << >> =>
        LET h == uptimeText[1].hours
            m == uptimeText[1].minutes
        IN  /\ h >= 0
            /\ m \in 0..59
            /\ h * 3600 + m * 60 <= seconds
            /\ seconds < h * 3600 + m * 60 + 60

C13_Witness ==
    /\ seconds = 3661
    /\ uptimeText = << [hours |-> 1, minutes |-> 1] >>

\* Is label a letter-casing of the lower-case word?
IsCasingOf(label, word) ==
    /\ Len(label) = Len(word)
    /\ \A i \in 1..Len(word) :
          \/ label[i] = word[i]
          \/ \E j \in 1..26 : LowerLetters[j] = word[i] /\ UpperLetters[j] = label[i]

\* C14: the Chip color of a label, for the overall status and for a module's
\* status alike, is success for any casing of healthy, active or running,
\* warning for any casing of warning, error for any casing of error or
\* failed, and default for every other label.
C14_SeverityByLabel ==
    chip # "none" =>
        chip = ( IF \E w \in {healthy, active, running} : IsCasingOf(status, w)
                   THEN "success"
                 ELSE IF IsCasingOf(status, warning)
                   THEN "warning"
                 ELSE IF \E w \in {errorLabel, failed} : IsCasingOf(status, w)
                   THEN "error"
                 ELSE "default" )

C14_Witness ==
    /\ slot = "retrieval"
    /\ status = << "R", "u", "N", "n", "I", "n", "G" >>
    /\ chip = "success"

\* C15: a step that toggles debug mode changes nothing else: snapshot,
\* loading, error, call log, the armed timer and the fetches in flight stay
\* as they are and no fetch is started.
C15_ToggleChangesOnlyDebugMode ==
    [][debugMode' # debugMode =>
          UNCHANGED << systemStatus, loading, error, apiCalls, phase, interval,
                       inflight, requests, started, periods >>]_vars

C15_Witness ==
    /\ lastEvent = "toggle"
    /\ debugMode
    /\ inflight # << >>
    /\ interval = PollIntervalMs
    /\ systemStatus # NULL
    /\ error # NULL

\* C16: a step that starts a poll cycle (activation, tick or manual refresh)
\* ends with loading true and the error null, and leaves the snapshot and
\* the call log as they were.
C16_StartOfCycle ==
    [][requests' # requests =>
          /\ loading'
          /\ error' = NULL
          /\ systemStatus' = systemStatus
          /\ apiCalls' = apiCalls]_vars

C16_Witness ==
    /\ lastEvent \in {"tick", "manual"}
    /\ ~overlapped
    /\ outcomes # << >>
    /\ ~last.ok
    /\ apiCalls[1].status = "error"
    /\ systemStatus # NULL
    /\ loading
    /\ error = NULL

\* C17: the snapshot never goes back to null once it is set, and it changes
\* only in a successful completion, to that completion's payload.
C17_SnapshotOnlyReplaced ==
    [][/\ systemStatus # NULL => systemStatus' # NULL
       /\ systemStatus' # systemStatus =>
             /\ lastEvent' = "success"
             /\ Len(outcomes') = Len(outcomes) + 1
             /\ systemStatus' = last'.data
             /\ systemStatus' \in Payloads]_vars

C17_Witness ==
    /\ lastEvent = "failure"
    /\ last.before \in Payloads
    /\ systemStatus = last.before
    /\ \E i \in 1..Len(outcomes) : outcomes[i]
    /\ Len(outcomes) >= 3

\* C18 as claimed: the loading flag is true whenever a fetch is in flight.
C18_LoadingWhileInFlight ==
    inflight # << >> => loading

\* C18 amended: the loading flag is true only while a fetch is in flight,
\* and when no poll cycles have overlapped it is true exactly while one is
\* in flight, so the refresh button cannot then start a second fetch.
C18_LoadingImpliesInFlight ==
    /\ loading => inflight # << >>
    /\ ~overlapped => (loading <=> inflight # << >>)
    /\ (lastEvent = "manual" /\ ~overlapped) => Len(inflight) = 1

C18_Witness ==
    /\ lastEvent = "manual"
    /\ ~overlapped
    /\ loading
    /\ Len(inflight) = 1
    /\ outcomes # << >>

\* C19: whenever the call-log entry for the status endpoint has status
\* 'success', its data is the stored snapshot.
C19_SuccessEntryIsSnapshot ==
    \A i \in 1..Len(apiCalls) :
        (apiCalls[i].endpoint = StatusEndpoint /\ apiCalls[i].status = "success")
            => apiCalls[i].data = systemStatus

C19_Witness ==
    /\ overlapped
    /\ Len(outcomes) >= 3
    /\ \E i \in 1..Len(outcomes) : ~outcomes[i]
    /\ last.overtaken
    /\ apiCalls[1].status = "success"
    /\ apiCalls[1].data = systemStatus
    /\ last.before \in Payloads
    /\ last.before # systemStatus

\* C20: after a failed fetch the message in the error field equals the
\* message in the call-log entry recorded for that failure.
C20_SameMessageInLogAndField ==
    lastEvent = "failure" =>
        \E i \in 1..Len(apiCalls) :
            /\ apiCalls[i].endpoint = StatusEndpoint
            /\ apiCalls[i].error = error

====
